---- MODULE Spec2Model ----
(***************************************************************************)
(* Model of deepalert's correlation / deduplication store.                 *)
(*                                                                         *)
(* DataStoreService (TakeReport, SaveAlertCache, FetchAlertCache,          *)
(* SaveReportSection, FetchReportSection, PutAttributeCache) on top of one *)
(* keyed table with conditional writes.  Time is counted in hours.  Every  *)
(* caller is a process that performs one call; a call that makes several   *)
(* round trips to the table is one action per round trip, so that calls of *)
(* different callers interleave between them.                              *)
(***************************************************************************)
EXTENDS Integers, Sequences, FiniteSets, Bags, TLC

\* ------------------------------------------------------------------ bounds
\* Callers of TakeReport, of PutAttributeCache and of the two logs.
NumTakers == 2
NumAdmitters == 2
NumSeqAdmitters == 3
NumLoggers == 3
NumCallers == 2
NumTTLCallers == 2
NumRacers == 3
NumKeyedCallers == 3
\* Event timestamps are 0..MaxTime; the wall clock starts at MaxTime (an
\* alert is not from the future) and ticks at most FewTicks times, AdmitTicks
\* times where callers of PutAttributeCache race.
MaxTime == 4
FewTicks == 1
AdmitTicks == 4
NumAlertKeys == 1
NumReports == 1
\* Alert identities and reports where calls on several keys interleave.
NumKeys == 2
\* The instants of time.Time that fall in one unit of a stored int64 time.
Resolution == 2
\* The characters of a state machine ARN, at most.
MaxArnLen == 8

\* --------------------------------------------------------- program constants
\* The window of a report, the time to live of an alert cache, of an attribute
\* cache and of a report section, in hours.
ReportWindow == 3
TimeToLive == 3
AttributeTimeToLive == 3
SectionTimeToLive == 24

Times == 0..MaxTime
AlertKeys == 1..NumAlertKeys
ReportIDs == 1..NumReports
NoTime == 0 - 1

\* now: the wall clock.  alertmap, attributes, alertcaches, sections: the
\* table's partitions "alertmap/", "attribute/", "alert/" and "content/".
\* pc, call, ret: where each caller is in its call, the call's arguments and
\* what it returned.  resp: the answers the table gave to the call's requests.
VARIABLES now, alertmap, attributes, alertcaches, sections, pc, call, ret, resp

vars == <<now, alertmap, attributes, alertcaches, sections, pc, call, ret, resp>>

\* The callers of the running specification.
Procs == DOMAIN pc

\* ------------------------------------------------------------------- values

\* deepalert.Alert: the fields the store reads.
Alerts == [Detector : {"ids"}, RuleName : {"ruleA"}, AlertKey : AlertKeys, Timestamp : Times]

\* Alert.AlertID(): generated by Detector, RuleName and AlertKey.
AlertID(alert) == <<alert.Detector, alert.RuleName, alert.AlertKey>>

\* uuid.New(): a token no other call gets; each caller makes one call and
\* draws at most one token in it, so the caller's number is the token.
NewUUID(p) == p

NewReportIDFixed(p) == 1

NewReportID(p) == NewUUID(p)

NilReport == [ID |-> 0, Status |-> "nil", CreatedAt |-> NoTime]

NilAttr == [Key |-> "", Type |-> "", Value |-> "", Timestamp |-> NoTime]

NilAlert == [Detector |-> "", RuleName |-> "", AlertKey |-> 0, Timestamp |-> NoTime]

\* A call: its arguments, the clock it read, the callers that had returned
\* when it began, and the entry that stood in the way of its write (kept for
\* the record only: the rejection does not tell the call which entry it was).
NoCall == [op |-> "none", alert |-> NilAlert, reportID |-> 0, attr |-> NilAttr,
           now |-> NoTime, after |-> {}, arn |-> <<>>, data |-> "",
           rejected |-> [ExpiresAt |-> 0 - 1, CreatedAt |-> 0 - 1, ReportID |-> 0]]

\* What a call returns: a report, an admission or the fetched items, and the
\* error ("" is nil).
NoRet == [report |-> NilReport, admitted |-> FALSE, items |-> <<>>, err |-> ""]

\* The callers that have returned.
Returned == {q \in Procs : pc[q] = "done"}

\* Reports are numbered in the order of their first use.
UsedReports == {call[q].reportID : q \in {q \in Procs : pc[q] # "idle"}}

NextReports == {r \in ReportIDs : r = 1 \/ r - 1 \in UsedReports}

\* ----------------------------------------------------------- the table
\* The condition of both conditional writes:
\* "(attribute_not_exists(pk) AND attribute_not_exists(sk)) OR expires_at < ?"
NoCondition(tbl, key, ts) == TRUE

ConditionOrEqual(tbl, key, ts) == IF key \in DOMAIN tbl THEN tbl[key].ExpiresAt <= ts ELSE TRUE

ConditionReversed(tbl, key, ts) == IF key \in DOMAIN tbl THEN ts < tbl[key].ExpiresAt ELSE TRUE

ConditionAnyKey(tbl, key, ts) == \A k \in DOMAIN tbl : tbl[k].ExpiresAt < ts

ConditionHolds(tbl, key, ts) == IF key \in DOMAIN tbl THEN tbl[key].ExpiresAt < ts ELSE TRUE

\* table.Put(rec).Run(): the record is stored under its key, replacing what
\* was there.
Put(tbl, key, rec) == [k \in DOMAIN tbl \cup {key} |-> IF k = key THEN rec ELSE tbl[k]]

\* The answers of the table: nil, the rejection of a conditional write, the
\* item that is not there, and any other failure of a request.
ConditionalCheckFailed == "ConditionalCheckFailedException"
ErrNotFound == "ErrNotFound"
RequestError == "RequestError"

isAnyErr(err) == err # ""

isConditionalCheckErr(err) == err = ConditionalCheckFailed

\* table.Put(rec).If(condition, ts).Run(): what the request may answer and
\* the table it leaves.  A request that fails writes nothing.
PutThenCheck(tbl, key, rec, ts) ==
    {[err |-> RequestError, tbl |-> tbl]} \cup
    (IF ConditionHolds(tbl, key, ts)
     THEN {[err |-> "", tbl |-> Put(tbl, key, rec)]}
     ELSE {[err |-> ConditionalCheckFailed, tbl |-> Put(tbl, key, rec)]})

PutIf(tbl, key, rec, ts) ==
    {[err |-> RequestError, tbl |-> tbl]} \cup
    (IF ConditionHolds(tbl, key, ts)
     THEN {[err |-> "", tbl |-> Put(tbl, key, rec)]}
     ELSE {[err |-> ConditionalCheckFailed, tbl |-> tbl]})

\* table.Put(rec).Run() with its failure.
PutRun(tbl, key, rec) ==
    {[err |-> RequestError, tbl |-> tbl], [err |-> "", tbl |-> Put(tbl, key, rec)]}

\* table.Get("pk", pk).Range("sk", Equal, sk).One(&out).
GetOne(tbl, key, nil) ==
    {[err |-> RequestError, item |-> nil]} \cup
    (IF key \in DOMAIN tbl THEN {[err |-> "", item |-> tbl[key]]}
     ELSE {[err |-> ErrNotFound, item |-> nil]})

\* ------------------------------------------------------------- TakeReport
\* The alertEntry a TakeReport call tries to write.
NewAlertEntryFromClock(p, alert, t) ==
    [ExpiresAt |-> t + ReportWindow, CreatedAt |-> t, ReportID |-> NewReportID(p)]

NewAlertEntry(p, alert, t) ==
    [ExpiresAt |-> alert.Timestamp + ReportWindow, CreatedAt |-> t, ReportID |-> NewReportID(p)]

NilAlertEntry == [ExpiresAt |-> NoTime, CreatedAt |-> NoTime, ReportID |-> 0]

\* The report of the call that wrote its entry.
NewReport(cache, t) == [ID |-> cache.ReportID, Status |-> "new", CreatedAt |-> t]

\* The report of a call that found the entry of another.
MoreReportFromWindow(existedEntry) ==
    [ID |-> existedEntry.ReportID, Status |-> "more",
     CreatedAt |-> existedEntry.ExpiresAt - ReportWindow]

MoreReport(existedEntry) ==
    [ID |-> existedEntry.ReportID, Status |-> "more", CreatedAt |-> existedEntry.CreatedAt]

\* TakeReport up to the conditional write: the call reads the clock and builds
\* its entry.  Callers are numbered in their order of arrival, alert keys in
\* the order of their first use.
UsedAlertKeys == {call[q].alert.AlertKey : q \in {q \in Procs : pc[q] # "idle"}}

NextAlerts == {a \in Alerts : a.AlertKey = 1 \/ a.AlertKey - 1 \in UsedAlertKeys}

TakeReportCall(p, alerts) ==
    /\ pc[p] = "idle"
    /\ \A q \in Procs : q < p => pc[q] # "idle"
    /\ \E alert \in alerts :
          call' = [call EXCEPT ![p] = [NoCall EXCEPT !.op = "TakeReport", !.alert = alert,
                                                     !.now = now, !.after = Returned]]
    /\ pc' = [pc EXCEPT ![p] = "take_put"]
    /\ UNCHANGED <<now, alertmap, attributes, alertcaches, sections, ret, resp>>

TakeReportBegin(p) == TakeReportCall(p, NextAlerts)

\* The same with alerts of several identities, at the first and the last hour.
KeyedAlerts ==
    [Detector : {"ids"}, RuleName : {"ruleA"}, AlertKey : 1..NumKeys, Timestamp : {0, MaxTime}]

TakeReportBeginKeyed(p) ==
    TakeReportCall(p, {a \in KeyedAlerts : a.AlertKey = 1 \/ a.AlertKey - 1 \in UsedAlertKeys})

\* The conditional write of TakeReport and what the call does with its answer.
TakeReportPut(p) ==
    /\ pc[p] = "take_put"
    /\ LET alert == call[p].alert
           cache == NewAlertEntry(p, alert, call[p].now)
       IN  \E put \in PutIf(alertmap, AlertID(alert), cache, alert.Timestamp) :
              /\ alertmap' = put.tbl
              /\ resp' = [resp EXCEPT ![p] = Append(@, put.err)]
              /\ IF put.err = ""
                 THEN /\ ret' = [ret EXCEPT ![p] =
                                    [NoRet EXCEPT !.report = NewReport(cache, call[p].now)]]
                      /\ pc' = [pc EXCEPT ![p] = "done"]
                 ELSE IF isConditionalCheckErr(put.err)
                 THEN /\ pc' = [pc EXCEPT ![p] = "take_get"]
                      /\ UNCHANGED ret
                 ELSE /\ ret' = [ret EXCEPT ![p] = [NoRet EXCEPT !.err = put.err]]
                      /\ pc' = [pc EXCEPT ![p] = "done"]
              /\ call' = IF put.err = ConditionalCheckFailed
                         THEN [call EXCEPT ![p].rejected =
                                  IF AlertID(alert) \in DOMAIN alertmap
                                  THEN alertmap[AlertID(alert)] ELSE NilAlertEntry]
                         ELSE call
    /\ UNCHANGED <<now, attributes, alertcaches, sections>>

\* The read that follows a rejected write.
TakeReportGet(p) ==
    /\ pc[p] = "take_get"
    /\ \E get \in GetOne(alertmap, AlertID(call[p].alert), NilAlertEntry) :
          /\ resp' = [resp EXCEPT ![p] = Append(@, get.err)]
          /\ IF get.err # ""
             THEN ret' = [ret EXCEPT ![p] = [NoRet EXCEPT !.err = get.err]]
             ELSE ret' = [ret EXCEPT ![p] = [NoRet EXCEPT !.report = MoreReport(get.item)]]
    /\ pc' = [pc EXCEPT ![p] = "done"]
    /\ UNCHANGED <<now, alertmap, attributes, alertcaches, sections, call>>

\* ------------------------------------------------------ PutAttributeCache
\* deepalert.Attribute; Timestamp is a pointer, NoTime when it is nil.
Attributes == [Key : {"ip"}, Type : {"ipv4"}, Value : {"1.2.3.4", "5.6.7.8"},
               Timestamp : {NoTime, 0}]

\* Attribute.Hash(): a fingerprint of the attribute's key, type and value.
Hash(attr) == <<attr.Key, attr.Type, attr.Value>>

\* The key of an attribute's record: "attribute/{reportID}", AttrHash.
AttributeCacheKeyByName(reportID, attr) == <<reportID, <<attr.Key, attr.Type, "">>>>

AttributeCacheKeyWithTime(reportID, attr) == <<reportID, <<Hash(attr), attr.Timestamp>>>>

AttributeCacheKey(reportID, attr) == <<reportID, Hash(attr)>>

\* The attributeCache record of a call that read the clock at t.
NewAttributeCacheNoTTL(attr, t) ==
    [ExpiresAt |-> t,
     Timestamp |-> IF attr.Timestamp # NoTime THEN attr.Timestamp ELSE t,
     AttrKey |-> attr.Key, AttrType |-> attr.Type, AttrValue |-> attr.Value]

NewAttributeCacheFromObservation(attr, t) ==
    [ExpiresAt |-> (IF attr.Timestamp # NoTime THEN attr.Timestamp ELSE t) + AttributeTimeToLive,
     Timestamp |-> IF attr.Timestamp # NoTime THEN attr.Timestamp ELSE t,
     AttrKey |-> attr.Key, AttrType |-> attr.Type, AttrValue |-> attr.Value]

NewAttributeCache(attr, t) ==
    [ExpiresAt |-> t + AttributeTimeToLive,
     Timestamp |-> IF attr.Timestamp # NoTime THEN attr.Timestamp ELSE t,
     AttrKey |-> attr.Key, AttrType |-> attr.Type, AttrValue |-> attr.Value]

\* PutAttributeCache up to the conditional write: the call reads the clock.
PutAttributeCacheCall(p, reportIDs, attrs) ==
    /\ pc[p] = "idle"
    /\ \A q \in Procs : q < p => pc[q] # "idle"
    /\ \E reportID \in reportIDs, attr \in attrs :
          call' = [call EXCEPT ![p] = [NoCall EXCEPT !.op = "PutAttributeCache",
                                          !.reportID = reportID, !.attr = attr,
                                          !.now = now, !.after = Returned]]
    /\ pc' = [pc EXCEPT ![p] = "attr_put"]
    /\ UNCHANGED <<now, alertmap, attributes, alertcaches, sections, ret, resp>>

PutAttributeCacheBegin(p) == PutAttributeCacheCall(p, NextReports, Attributes)

\* The same for several reports, with attributes that carry no observation
\* time.
PutAttributeCacheBeginKeyed(p) ==
    PutAttributeCacheCall(p, {r \in 1..NumKeys : r = 1 \/ r - 1 \in UsedReports},
                          {a \in Attributes : a.Timestamp = NoTime})

\* The conditional write of PutAttributeCache and what the call returns.
PutAttributeCachePut(p) ==
    /\ pc[p] = "attr_put"
    /\ LET key == AttributeCacheKey(call[p].reportID, call[p].attr)
           cache == NewAttributeCache(call[p].attr, call[p].now)
       IN  \E put \in PutIf(attributes, key, cache, call[p].now) :
              /\ attributes' = put.tbl
              /\ resp' = [resp EXCEPT ![p] = Append(@, put.err)]
              /\ IF put.err = ""
                 THEN ret' = [ret EXCEPT ![p] = [NoRet EXCEPT !.admitted = TRUE]]
                 ELSE IF isConditionalCheckErr(put.err)
                 THEN ret' = [ret EXCEPT ![p] = [NoRet EXCEPT !.admitted = FALSE]]
                 ELSE ret' = [ret EXCEPT ![p] = [NoRet EXCEPT !.admitted = FALSE,
                                                              !.err = put.err]]
    /\ pc' = [pc EXCEPT ![p] = "done"]
    /\ UNCHANGED <<now, alertmap, alertcaches, sections, call>>

\* A call that starts when no other call is under way.
PutAttributeCacheBeginSeq(p) ==
    /\ \A q \in Procs : pc[q] \in {"idle", "done"}
    /\ PutAttributeCacheBegin(p)

\* ------------------------------------------------------------- the codec
\* json.Marshal of an alert: the object's fields between braces.
MarshalAlert(alert) ==
    <<"{", alert.Detector, alert.RuleName, alert.AlertKey, alert.Timestamp, "}">>

\* json.Unmarshal into an alert: fails on anything but a whole object.
UnmarshalAlert(raw) ==
    IF Len(raw) = 6 /\ raw[1] = "{" /\ raw[6] = "}"
    THEN [ok |-> TRUE, value |-> [Detector |-> raw[2], RuleName |-> raw[3],
                                   AlertKey |-> raw[4], Timestamp |-> raw[5]]]
    ELSE [ok |-> FALSE, value |-> NilAlert]

\* deepalert.ReportSection: the report it belongs to, the inspected attribute
\* and the inspector that wrote it.
Sections == [ReportID : ReportIDs, Attribute : {a \in Attributes : a.Timestamp = NoTime},
             Author : {"inspector"}]

NilSection == [ReportID |-> 0, Attribute |-> NilAttr, Author |-> ""]

MarshalSection(section) ==
    <<"{", section.ReportID, section.Attribute.Key, section.Attribute.Type,
      section.Attribute.Value, section.Attribute.Timestamp, section.Author, "}">>

UnmarshalSection(raw) ==
    IF Len(raw) = 8 /\ raw[1] = "{" /\ raw[8] = "}"
    THEN [ok |-> TRUE,
          value |-> [ReportID |-> raw[2],
                     Attribute |-> [Key |-> raw[3], Type |-> raw[4], Value |-> raw[5],
                                    Timestamp |-> raw[6]],
                     Author |-> raw[7]]]
    ELSE [ok |-> FALSE, value |-> NilSection]

\* Bytes that are no whole object: what a writer of another schema, or a
\* truncated write, leaves in the table.
Malformed == <<"{", "ids">>

\* --------------------------------------------------------------- the logs
\* The alerts and sections the callers of the logs append.
LogAlerts == {a \in Alerts : a.Timestamp \in {0, MaxTime}}

\* toAlertCacheKey: "alert/{reportID}", "cache/{uuid}".
toAlertCacheKeyFixed(reportID, p) == <<reportID, <<"cache", 1>>>>

toAlertCacheKey(reportID, p) == <<reportID, <<"cache", NewUUID(p)>>>>

\* toReportSectionRecord: "content/{reportID}", "{AttrHash}/{uuid}".
toReportSectionRecord(reportID, section, p) ==
    <<reportID, <<Hash(section.Attribute), NewUUID(p)>>>>

\* table.Get("pk", pk).All: the keys of a partition, in each order the query
\* may return them.
Partition(tbl, reportID) == {k \in DOMAIN tbl : k[1] = reportID}

Orders(keys) ==
    {o \in [1..Cardinality(keys) -> keys] : \A i, j \in DOMAIN o : o[i] = o[j] => i = j}

\* The decoding loop of FetchAlertCache: the first record that fails to
\* decode ends the call with an error and no alerts.
RECURSIVE DecodeAlerts(_, _)
DecodeAlertsPartial(caches, alerts) ==
    IF caches = <<>> THEN [items |-> alerts, err |-> ""]
    ELSE LET r == UnmarshalAlert(Head(caches).AlertData)
         IN  IF ~r.ok THEN [items |-> alerts, err |-> "unmarshal"]
             ELSE DecodeAlerts(Tail(caches), Append(alerts, r.value))

DecodeAlerts(caches, alerts) ==
    IF caches = <<>> THEN [items |-> alerts, err |-> ""]
    ELSE LET r == UnmarshalAlert(Head(caches).AlertData)
         IN  IF ~r.ok THEN [items |-> <<>>, err |-> "unmarshal"]
             ELSE DecodeAlerts(Tail(caches), Append(alerts, r.value))

\* The decoding loop of FetchReportSection.
RECURSIVE DecodeSections(_, _)
DecodeSections(records, out) ==
    IF records = <<>> THEN [items |-> out, err |-> ""]
    ELSE LET r == UnmarshalSection(Head(records).Data)
         IN  IF ~r.ok THEN [items |-> <<>>, err |-> "unmarshal"]
             ELSE DecodeSections(Tail(records), Append(out, r.value))

\* table.Get("pk", pk).All(&out): the records of a partition in an order the
\* query may return them, or the failure of the request.
GetAll(tbl, reportID) ==
    {[err |-> RequestError, items |-> <<>>]} \cup
    {[err |-> "", items |-> [i \in DOMAIN o |-> tbl[o[i]]]] :
        o \in Orders(Partition(tbl, reportID))}

SaveAlertCache(p) ==
    /\ pc[p] = "idle"
    /\ \A q \in Procs : q < p => pc[q] # "idle"
    /\ \E reportID \in NextReports, alert \in LogAlerts :
          /\ call' = [call EXCEPT ![p] = [NoCall EXCEPT !.op = "SaveAlertCache",
                          !.reportID = reportID, !.alert = alert, !.now = now,
                          !.after = Returned]]
          /\ LET cache == [AlertData |-> MarshalAlert(alert),
                           ExpiresAt |-> alert.Timestamp + TimeToLive]
             IN  \E put \in PutRun(alertcaches, toAlertCacheKey(reportID, p), cache) :
                    /\ alertcaches' = put.tbl
                    /\ resp' = [resp EXCEPT ![p] = Append(@, put.err)]
                    /\ ret' = [ret EXCEPT ![p] = [NoRet EXCEPT !.err = put.err]]
    /\ pc' = [pc EXCEPT ![p] = "done"]
    /\ UNCHANGED <<now, alertmap, attributes, sections>>

FetchAlertCache(p) ==
    /\ pc[p] = "idle"
    /\ \A q \in Procs : q < p => pc[q] # "idle"
    /\ \E reportID \in NextReports :
          /\ call' = [call EXCEPT ![p] = [NoCall EXCEPT !.op = "FetchAlertCache",
                          !.reportID = reportID, !.now = now, !.after = Returned]]
          /\ \E get \in GetAll(alertcaches, reportID) :
                /\ resp' = [resp EXCEPT ![p] = Append(@, get.err)]
                /\ IF get.err # ""
                   THEN ret' = [ret EXCEPT ![p] = [NoRet EXCEPT !.err = get.err]]
                   ELSE LET got == DecodeAlerts(get.items, <<>>)
                        IN  ret' = [ret EXCEPT ![p] = [NoRet EXCEPT !.items = got.items,
                                                                     !.err = got.err]]
    /\ pc' = [pc EXCEPT ![p] = "done"]
    /\ UNCHANGED <<now, alertmap, attributes, alertcaches, sections>>

SaveReportSection(p) ==
    /\ pc[p] = "idle"
    /\ \A q \in Procs : q < p => pc[q] # "idle"
    /\ \E section \in {s \in Sections : s.ReportID \in NextReports} :
          /\ call' = [call EXCEPT ![p] = [NoCall EXCEPT !.op = "SaveReportSection",
                          !.reportID = section.ReportID, !.attr = section.Attribute,
                          !.now = now, !.after = Returned]]
          /\ LET record == [Data |-> MarshalSection(section),
                            ExpiresAt |-> now + SectionTimeToLive]
             IN  \E put \in PutRun(sections,
                                   toReportSectionRecord(section.ReportID, section, p),
                                   record) :
                    /\ sections' = put.tbl
                    /\ resp' = [resp EXCEPT ![p] = Append(@, put.err)]
                    /\ ret' = [ret EXCEPT ![p] = [NoRet EXCEPT !.err = put.err]]
    /\ pc' = [pc EXCEPT ![p] = "done"]
    /\ UNCHANGED <<now, alertmap, attributes, alertcaches>>

FetchReportSection(p) ==
    /\ pc[p] = "idle"
    /\ \A q \in Procs : q < p => pc[q] # "idle"
    /\ \E reportID \in NextReports :
          /\ call' = [call EXCEPT ![p] = [NoCall EXCEPT !.op = "FetchReportSection",
                          !.reportID = reportID, !.now = now, !.after = Returned]]
          /\ \E get \in GetAll(sections, reportID) :
                /\ resp' = [resp EXCEPT ![p] = Append(@, get.err)]
                /\ IF get.err # ""
                   THEN ret' = [ret EXCEPT ![p] = [NoRet EXCEPT !.err = get.err]]
                   ELSE LET got == DecodeSections(get.items, <<>>)
                        IN  ret' = [ret EXCEPT ![p] = [NoRet EXCEPT !.items = got.items,
                                                                     !.err = got.err]]
    /\ pc' = [pc EXCEPT ![p] = "done"]
    /\ UNCHANGED <<now, alertmap, attributes, alertcaches, sections>>

\* ------------------------------------------------------------ time to live
\* The table deletes an item once the clock has passed its expires_at.
ExpireAlertEntry(key) ==
    /\ key \in DOMAIN alertmap
    /\ alertmap[key].ExpiresAt < now
    /\ alertmap' = [k \in DOMAIN alertmap \ {key} |-> alertmap[k]]
    /\ UNCHANGED <<now, attributes, alertcaches, sections, pc, call, ret, resp>>

ExpireAttributeCache(key) ==
    /\ key \in DOMAIN attributes
    /\ attributes[key].ExpiresAt < now
    /\ attributes' = [k \in DOMAIN attributes \ {key} |-> attributes[k]]
    /\ UNCHANGED <<now, alertmap, alertcaches, sections, pc, call, ret, resp>>

\* time.Now() moves on, at most `ticks` hours.
Tick(ticks) ==
    /\ now < MaxTime + ticks
    /\ now' = now + 1
    /\ UNCHANGED <<alertmap, attributes, alertcaches, sections, pc, call, ret, resp>>

\* ------------------------------------------------- the in-memory Repository
\* The mock keeps its entries in alertmap and attributes; their ExpiresAt is
\* an int64 (Unix time) and the ts of a write is a time.Time, an instant.
Instants == 0..(MaxTime * Resolution + Resolution - 1)

\* time.Time.Unix(): the whole units that have elapsed at an instant.
Unix(t) == t \div Resolution

errCondition == "condition error"

IsConditionalCheckErr(err) == err = errCondition

\* Repository.get: the value under the key, nil when there is none.
get(data, key, nil) == IF key \in DOMAIN data THEN data[key] ELSE nil

\* The test of PutAlertEntry and PutAttributeCache: a value is stored and ts
\* is not past its ExpiresAt.
RejectsBefore(data, key, nil, ts) ==
    LET v == get(data, key, nil) IN v # nil /\ Unix(ts) < v.ExpiresAt

Rejects(data, key, nil, ts) ==
    LET v == get(data, key, nil) IN v # nil /\ Unix(ts) <= v.ExpiresAt

\* What the write returns and the data it leaves.
PutUnless(data, key, rec, nil, ts) ==
    IF Rejects(data, key, nil, ts) THEN [err |-> errCondition, data |-> data]
    ELSE [err |-> "", data |-> Put(data, key, rec)]

NilAttributeCache ==
    [ExpiresAt |-> NoTime, Timestamp |-> NoTime, AttrKey |-> "", AttrType |-> "",
     AttrValue |-> ""]

\* Repository.PutAlertEntry(entry, ts), with an entry and a ts of the caller's
\* choice.
PutAlertEntry(p) ==
    /\ pc[p] = "idle"
    /\ \E alert \in {a \in Alerts : a.Timestamp = 0}, e \in Times, ts \in Instants :
          LET entry == [ExpiresAt |-> e, CreatedAt |-> NoTime, ReportID |-> NewReportID(p)]
              put == PutUnless(alertmap, AlertID(alert), entry, NilAlertEntry, ts)
          IN  /\ call' = [call EXCEPT ![p] = [NoCall EXCEPT !.op = "PutAlertEntry",
                                                  !.alert = alert, !.now = ts]]
              /\ alertmap' = put.data
              /\ ret' = [ret EXCEPT ![p] = [NoRet EXCEPT !.err = put.err]]
              /\ resp' = [resp EXCEPT ![p] = <<put.err>>]
    /\ pc' = [pc EXCEPT ![p] = "done"]
    /\ UNCHANGED <<now, attributes, alertcaches, sections>>

\* Repository.GetAlertEntry(pk, sk): the entry, or nil and no error.
GetAlertEntry(p) ==
    /\ pc[p] = "idle"
    /\ \E alert \in {a \in Alerts : a.Timestamp = 0} :
          LET d == get(alertmap, AlertID(alert), NilAlertEntry)
          IN  /\ call' = [call EXCEPT ![p] = [NoCall EXCEPT !.op = "GetAlertEntry",
                                                  !.alert = alert]]
              /\ ret' = [ret EXCEPT ![p] =
                            [NoRet EXCEPT !.report = [ID |-> d.ReportID, Status |-> "entry",
                                                      CreatedAt |-> d.CreatedAt]]]
              /\ resp' = [resp EXCEPT ![p] = <<"">>]
    /\ pc' = [pc EXCEPT ![p] = "done"]
    /\ UNCHANGED <<now, alertmap, attributes, alertcaches, sections>>

\* Repository.PutAttributeCache(attr, ts).
PutAttributeCache(p) ==
    /\ pc[p] = "idle"
    /\ \E reportID \in ReportIDs,
          attr \in {a \in Attributes : a.Timestamp = 0 /\ a.Value = "1.2.3.4"},
          e \in Times, ts \in Instants :
          LET cache == [ExpiresAt |-> e, Timestamp |-> attr.Timestamp, AttrKey |-> attr.Key,
                        AttrType |-> attr.Type, AttrValue |-> attr.Value]
              put == PutUnless(attributes, AttributeCacheKey(reportID, attr), cache,
                               NilAttributeCache, ts)
          IN  /\ call' = [call EXCEPT ![p] = [NoCall EXCEPT !.op = "PutAttributeCache",
                                                  !.reportID = reportID, !.attr = attr,
                                                  !.now = ts]]
              /\ attributes' = put.data
              /\ ret' = [ret EXCEPT ![p] = [NoRet EXCEPT !.admitted = (put.err = ""),
                                                         !.err = put.err]]
              /\ resp' = [resp EXCEPT ![p] = <<put.err>>]
    /\ pc' = [pc EXCEPT ![p] = "done"]
    /\ UNCHANGED <<now, alertmap, alertcaches, sections>>

\* The caller has its answer and makes the next call.
Again(p) ==
    /\ pc[p] = "done"
    /\ pc' = [pc EXCEPT ![p] = "idle"]
    /\ call' = [call EXCEPT ![p] = NoCall]
    /\ ret' = [ret EXCEPT ![p] = NoRet]
    /\ resp' = [resp EXCEPT ![p] = <<>>]
    /\ UNCHANGED <<now, alertmap, attributes, alertcaches, sections>>

\* ------------------------------------------------------------- SFnService
\* An ARN is a string: a sequence of characters.
Chars == {":", "a", "b"}

Arns == UNION {[1..n -> Chars] : n \in 0..MaxArnLen}

\* The data handed to Exec: a report, or a value json.Marshal has no encoding
\* for.
ExecData == {"report", "chan"}

\* strings.Split(s, sep): the pieces of s between the separators; one more
\* piece than there are separators, empty pieces included.
RECURSIVE Split(_, _)
Split(str, sep) ==
    IF \A i \in DOMAIN str : str[i] # sep THEN <<str>>
    ELSE LET i == CHOOSE k \in DOMAIN str :
                      str[k] = sep /\ \A j \in 1..(k - 1) : str[j] # sep
         IN  <<SubSeq(str, 1, i - 1)>> \o Split(SubSeq(str, i + 1, Len(str)), sep)

InvalidARN == "Invalid state machine ARN"
MarshalFailed == "Fail to marshal report data"
ExecuteFailed == "Fail to execute state machine"

extractSFnRegionAtLeast(arn) ==
    LET arnParts == Split(arn, ":")
    IN  IF Len(arnParts) < 7 THEN [region |-> <<>>, err |-> InvalidARN]
        ELSE [region |-> arnParts[4], err |-> ""]

extractSFnRegion(arn) ==
    LET arnParts == Split(arn, ":")
    IN  IF Len(arnParts) # 7 THEN [region |-> <<>>, err |-> InvalidARN]
        ELSE [region |-> arnParts[4], err |-> ""]

\* Exec up to the session: the data is marshalled, the region extracted and
\* the session made for it.  resp holds what the call asked of the SDK.
Exec(p) ==
    /\ pc[p] = "idle"
    /\ \E arn \in Arns, data \in ExecData :
          LET extracted == extractSFnRegion(arn)
          IN  /\ call' = [call EXCEPT ![p] = [NoCall EXCEPT !.op = "Exec", !.arn = arn,
                                                          !.data = data]]
              /\ IF data = "chan"
                 THEN /\ ret' = [ret EXCEPT ![p] = [NoRet EXCEPT !.err = MarshalFailed]]
                      /\ pc' = [pc EXCEPT ![p] = "done"]
                      /\ UNCHANGED resp
                 ELSE IF extracted.err # ""
                 THEN /\ ret' = [ret EXCEPT ![p] = [NoRet EXCEPT !.err = extracted.err]]
                      /\ pc' = [pc EXCEPT ![p] = "done"]
                      /\ UNCHANGED resp
                 ELSE /\ resp' = [resp EXCEPT ![p] =
                                     <<[request |-> "NewSession", region |-> extracted.region]>>]
                      /\ pc' = [pc EXCEPT ![p] = "exec_start"]
                      /\ UNCHANGED ret
    /\ UNCHANGED <<now, alertmap, attributes, alertcaches, sections>>

\* svc.StartExecution(&input) and its answer.
ExecStart(p) ==
    /\ pc[p] = "exec_start"
    /\ resp' = [resp EXCEPT ![p] =
                    Append(@, [request |-> "StartExecution", arn |-> call[p].arn,
                               input |-> <<"{", call[p].data, "}">>])]
    /\ \E err \in {"", ExecuteFailed} : ret' = [ret EXCEPT ![p] = [NoRet EXCEPT !.err = err]]
    /\ pc' = [pc EXCEPT ![p] = "done"]
    /\ UNCHANGED <<now, alertmap, attributes, alertcaches, sections, call>>

\* ------------------------------------------------------------ specifications
EmptyTable == [k \in {} |-> 0]

\* An empty table and n callers that have not called yet.
InitWith(n) ==
    /\ now = MaxTime
    /\ alertmap = EmptyTable
    /\ attributes = EmptyTable
    /\ alertcaches = EmptyTable
    /\ sections = EmptyTable
    /\ pc = [p \in 1..n |-> "idle"]
    /\ call = [p \in 1..n |-> NoCall]
    /\ ret = [p \in 1..n |-> NoRet]
    /\ resp = [p \in 1..n |-> <<>>]

\* The correlation map: concurrent callers of TakeReport.
InitTake == InitWith(NumTakers)

NextTake ==
    \/ \E p \in Procs : TakeReportBegin(p)
    \/ \E p \in Procs : TakeReportPut(p)
    \/ \E p \in Procs : TakeReportGet(p)
    \/ Tick(FewTicks)

SpecTake == InitTake /\ [][NextTake]_vars

\* The attribute gate: concurrent callers of PutAttributeCache.
InitAdmit == InitWith(NumAdmitters)

NextAdmit ==
    \/ \E p \in Procs : PutAttributeCacheBegin(p)
    \/ \E p \in Procs : PutAttributeCachePut(p)
    \/ Tick(AdmitTicks)

SpecAdmit == InitAdmit /\ [][NextAdmit]_vars

\* The attribute gate called by one caller after the other.
InitAdmitSeq == InitWith(NumSeqAdmitters)

NextAdmitSeq ==
    \/ \E p \in Procs : PutAttributeCacheBeginSeq(p)
    \/ \E p \in Procs : PutAttributeCachePut(p)
    \/ Tick(FewTicks)

SpecAdmitSeq == InitAdmitSeq /\ [][NextAdmitSeq]_vars

\* The logs start empty, or hold one record of report 1 that another writer
\* of the table left there and that does not decode.
InitLog ==
    /\ now = MaxTime
    /\ alertmap = EmptyTable
    /\ attributes = EmptyTable
    /\ alertcaches \in {EmptyTable,
                        [k \in {<<1, <<"cache", 0>>>>} |->
                            [AlertData |-> Malformed, ExpiresAt |-> MaxTime + TimeToLive]]}
    /\ sections \in {EmptyTable,
                     [k \in {<<1, <<<<"ip", "ipv4", "1.2.3.4">>, 0>>>>} |->
                         [Data |-> Malformed, ExpiresAt |-> MaxTime + SectionTimeToLive]]}
    /\ pc = [p \in 1..NumLoggers |-> "idle"]
    /\ call = [p \in 1..NumLoggers |-> NoCall]
    /\ ret = [p \in 1..NumLoggers |-> NoRet]
    /\ resp = [p \in 1..NumLoggers |-> <<>>]

NextLog ==
    \/ \E p \in Procs : SaveAlertCache(p)
    \/ \E p \in Procs : FetchAlertCache(p)
    \/ \E p \in Procs : SaveReportSection(p)
    \/ \E p \in Procs : FetchReportSection(p)

SpecLog == InitLog /\ [][NextLog]_vars

\* The correlation map and the attribute gate together, at one hour.
InitStore == InitWith(NumCallers)

NextStore ==
    \/ \E p \in Procs : TakeReportBegin(p)
    \/ \E p \in Procs : TakeReportPut(p)
    \/ \E p \in Procs : TakeReportGet(p)
    \/ \E p \in Procs : PutAttributeCacheBegin(p)
    \/ \E p \in Procs : PutAttributeCachePut(p)

SpecStore == InitStore /\ [][NextStore]_vars

\* The same on a table that deletes expired items while the clock moves on.
NextTTL ==
    \/ NextStore
    \/ Tick(AdmitTicks)
    \/ \E key \in DOMAIN alertmap : ExpireAlertEntry(key)
    \/ \E key \in DOMAIN attributes : ExpireAttributeCache(key)

InitTTL == InitWith(NumTTLCallers)

SpecTTL == InitTTL /\ [][NextTTL]_vars

\* The correlation map with a third caller: a call that retries, or one that
\* starts the next window while two others race.
InitRace == InitWith(NumRacers)

NextRace ==
    \/ \E p \in Procs : TakeReportBegin(p)
    \/ \E p \in Procs : TakeReportPut(p)
    \/ \E p \in Procs : TakeReportGet(p)
    \/ Tick(FewTicks)

SpecRace == InitRace /\ [][NextRace]_vars

\* The correlation map and the attribute gate called for several alert
\* identities and several reports.
InitKeyed == InitWith(NumKeyedCallers)

NextKeyed ==
    \/ \E p \in Procs : TakeReportBeginKeyed(p)
    \/ \E p \in Procs : TakeReportPut(p)
    \/ \E p \in Procs : TakeReportGet(p)
    \/ \E p \in Procs : PutAttributeCacheBeginKeyed(p)
    \/ \E p \in Procs : PutAttributeCachePut(p)

SpecKeyed == InitKeyed /\ [][NextKeyed]_vars

\* The in-memory Repository under one caller that makes call after call.
InitMock == InitWith(1)

NextMock ==
    \/ \E p \in Procs : PutAlertEntry(p)
    \/ \E p \in Procs : GetAlertEntry(p)
    \/ \E p \in Procs : PutAttributeCache(p)
    \/ \E p \in Procs : Again(p)

SpecMock == InitMock /\ [][NextMock]_vars

\* SFnService under one caller that makes call after call.
InitSFn == InitWith(1)

NextSFn ==
    \/ \E p \in Procs : Exec(p)
    \/ \E p \in Procs : ExecStart(p)
    \/ \E p \in Procs : Again(p)

SpecSFn == InitSFn /\ [][NextSFn]_vars

\* The correlation map and the attribute gate while the clock moves on, for
\* one alert identity (events at the start of a window, at its end and past
\* it) and one report (attributes that carry no observation time).
TakeReportBeginFirst(p) ==
    TakeReportCall(p, {a \in Alerts : a.AlertKey = 1
                                       /\ a.Timestamp \in {0, ReportWindow, MaxTime}})

PutAttributeCacheBeginFirst(p) ==
    PutAttributeCacheCall(p, {1}, {a \in Attributes : a.Timestamp = NoTime})

NextClock ==
    \/ \E p \in Procs : TakeReportBeginFirst(p)
    \/ \E p \in Procs : TakeReportPut(p)
    \/ \E p \in Procs : TakeReportGet(p)
    \/ \E p \in Procs : PutAttributeCacheBeginFirst(p)
    \/ \E p \in Procs : PutAttributeCachePut(p)
    \/ Tick(AdmitTicks)

SpecClock == InitStore /\ [][NextClock]_vars

\* ================================================================== claims
Finished(S) == \A p \in S : pc[p] = "done"

\* The calls that returned without an error.
Reported(S) == {p \in S : ret[p].err = ""}

\* The callers of TakeReport for an alert identity.
AllAlertIDs == {AlertID(a) : a \in Alerts}

Takers(id) == {p \in Procs : call[p].op = "TakeReport" /\ AlertID(call[p].alert) = id}

News(S) == {p \in S : ret[p].report.Status = "new"}

EventTime(p) == call[p].alert.Timestamp

\* The event timestamps of the calls lie within one window of each other.
OneWindow(S) == \A p, q \in S : EventTime(q) - EventTime(p) <= ReportWindow

\* Neither call had returned when the other began.
Concurrent(p, q) == p # q /\ p \notin call[q].after /\ q \notin call[p].after

\* C1: when all the TakeReport calls made for an alert identity on a table
\* that held no entry for it have returned, and their event timestamps lie
\* within one window, at most one of them returned NEW, all the reports
\* returned carry the same report identity, and exactly one is NEW as soon as
\* any call returned a report (a call fails only when the table fails it).
C1_SingleWinner ==
    \A id \in AllAlertIDs :
        LET S == Takers(id)
        IN  (S # {} /\ Finished(S) /\ OneWindow(S)) =>
               /\ Cardinality(News(S)) <= 1
               /\ \A p, q \in Reported(S) : ret[p].report.ID = ret[q].report.ID
               /\ Reported(S) # {} => Cardinality(News(S)) = 1

C1_Witness ==
    \E p, q \in Procs :
        /\ Concurrent(p, q) /\ Takers(AlertID(call[p].alert)) = {p, q} /\ Finished({p, q})
        /\ EventTime(p) # EventTime(q) /\ OneWindow({p, q})
        /\ ret[p].report.Status = "new" /\ ret[q].report.Status = "more"
        /\ ret[q].report.ID = ret[p].report.ID

\* Two calls, the only ones for their alert identity, the second begun after
\* the first returned, neither failed by the table.
InSequence(p, q) ==
    /\ p # q
    /\ call[p].op = "TakeReport"
    /\ Takers(AlertID(call[p].alert)) = {p, q}
    /\ Finished({p, q})
    /\ p \in call[q].after
    /\ Reported({p, q}) = {p, q}

\* C2: TakeReport(id, t1) on a table with no entry for id, followed by
\* TakeReport(id, t2) with t2 > t1 + W: both return NEW, with two distinct
\* report identities, and the table then holds the second call's entry,
\* expiring at t2 + W.
C2_WindowRollover ==
    \A p, q \in Procs :
        (InSequence(p, q) /\ EventTime(q) > EventTime(p) + ReportWindow) =>
            LET id == AlertID(call[p].alert)
            IN  /\ ret[p].report.Status = "new"
                /\ ret[q].report.Status = "new"
                /\ ret[p].report.ID # ret[q].report.ID
                /\ id \in DOMAIN alertmap
                /\ alertmap[id].ReportID = ret[q].report.ID
                /\ alertmap[id].ExpiresAt = EventTime(q) + ReportWindow

C2_Witness ==
    \E p, q \in Procs :
        /\ InSequence(p, q) /\ EventTime(q) > EventTime(p) + ReportWindow
        /\ ret[q].report.Status = "new"
        /\ alertmap[AlertID(call[p].alert)].ExpiresAt = EventTime(q) + ReportWindow

\* C3: of two TakeReport calls for one alert identity whose event timestamps
\* lie within one window, in whichever order they arrive and however they
\* interleave, one returns NEW and the other returns MORE with the report
\* identity and the createdAt of the NEW one.
C3_ArrivalOrder ==
    \A p, q \in Procs :
        (/\ p # q /\ call[p].op = "TakeReport"
         /\ Takers(AlertID(call[p].alert)) = {p, q}
         /\ Finished({p, q}) /\ Reported({p, q}) = {p, q}
         /\ OneWindow({p, q})) =>
            \E w \in {p, q} :
                \A l \in {p, q} \ {w} :
                    /\ ret[w].report.Status = "new"
                    /\ ret[w].report.CreatedAt = call[w].now
                    /\ ret[l].report = [ID |-> ret[w].report.ID, Status |-> "more",
                                        CreatedAt |-> ret[w].report.CreatedAt]

\* The late alert: its call begins after the call of the later event returned.
C3_Witness ==
    \E p, q \in Procs :
        /\ InSequence(p, q) /\ OneWindow({p, q})
        /\ EventTime(q) < EventTime(p)
        /\ call[q].now # call[p].now
        /\ call[p].now # EventTime(p)
        /\ ret[q].report.Status = "more"

\* C4 as the specification states it: a call whose event timestamp equals the
\* expires_at of the stored entry starts a new window.
C4_BoundaryStartsWindow ==
    \A p, q \in Procs :
        (InSequence(p, q) /\ EventTime(q) = EventTime(p) + ReportWindow) =>
            /\ ret[q].report.Status = "new"
            /\ ret[q].report.ID # ret[p].report.ID

\* C4: a call whose event timestamp equals the expires_at of the stored entry
\* finds that entry live: its write is rejected, it returns MORE with the
\* identity and createdAt of the entry, and the entry stays as it was.
C4_BoundaryJoins ==
    \A p, q \in Procs :
        (InSequence(p, q) /\ EventTime(q) = EventTime(p) + ReportWindow) =>
            LET id == AlertID(call[p].alert)
            IN  /\ ret[p].report.Status = "new"
                /\ resp[q] = <<ConditionalCheckFailed, "">>
                /\ ret[q].report = [ID |-> ret[p].report.ID, Status |-> "more",
                                    CreatedAt |-> ret[p].report.CreatedAt]
                /\ alertmap[id] = NewAlertEntry(p, call[p].alert, call[p].now)

C4_Witness ==
    \E p, q \in Procs :
        /\ InSequence(p, q) /\ EventTime(q) = EventTime(p) + ReportWindow
        /\ alertmap[AlertID(call[p].alert)].ExpiresAt = EventTime(q)
        /\ ret[q].report.Status = "more"

\* The callers of PutAttributeCache for a report.
Admitters(reportID) ==
    {p \in Procs : call[p].op = "PutAttributeCache" /\ call[p].reportID = reportID}

\* The attributes have the same key, type and value.
SameFields(a, b) == a.Key = b.Key /\ a.Type = b.Type /\ a.Value = b.Value

Admitted(S) == {p \in S : ret[p].admitted}

\* C5: when all the PutAttributeCache calls made for one report with the same
\* attribute fields on a table that held no record of the attribute have
\* returned, and they read the clock within one time to live of each other,
\* at most one of them returned true, and exactly one did as soon as any call
\* returned without an error.
C5_AdmitOnce ==
    \A reportID \in ReportIDs, attr \in Attributes :
        LET S == {p \in Admitters(reportID) : SameFields(call[p].attr, attr)}
        IN  (/\ S # {} /\ Finished(S)
             /\ \A p, q \in S : call[q].now - call[p].now <= AttributeTimeToLive) =>
               /\ Cardinality(Admitted(S)) <= 1
               /\ Reported(S) # {} => Cardinality(Admitted(S)) = 1
               /\ \A p \in S \ Admitted(S) :
                     ret[p].err = "" => resp[p] = <<ConditionalCheckFailed>>

C5_Witness ==
    \E p, q \in Procs :
        /\ Concurrent(p, q) /\ Finished({p, q})
        /\ Admitters(call[p].reportID) = {p, q}
        /\ SameFields(call[p].attr, call[q].attr)
        /\ call[p].now < call[q].now /\ call[q].now <= call[p].now + AttributeTimeToLive
        /\ ret[p].admitted /\ ~ret[q].admitted /\ ret[q].err = ""

\* Three calls for one report, the only ones, each begun after the one before
\* returned, none failed by the table: an attribute, the same attribute again
\* within the time to live, and an attribute of another value.
ThreeInSequence(p, q, r) ==
    /\ Cardinality({p, q, r}) = 3
    /\ call[p].op = "PutAttributeCache"
    /\ Admitters(call[p].reportID) = {p, q, r}
    /\ Finished({p, q, r})
    /\ p \in call[q].after /\ q \in call[r].after
    /\ Reported({p, q, r}) = {p, q, r}
    /\ SameFields(call[p].attr, call[q].attr)
    /\ call[q].now <= call[p].now + AttributeTimeToLive
    /\ call[r].attr.Value # call[p].attr.Value

\* C6: for one report, on a table with no record of it, PutAttributeCache of
\* an attribute returns true, the same call again (within the time to live of
\* the first) returns false, and a following call with an attribute of another
\* value returns true.
C6_PerAttribute ==
    \A p, q, r \in Procs :
        ThreeInSequence(p, q, r) =>
            /\ ret[p].admitted
            /\ ~ret[q].admitted
            /\ ret[r].admitted
            /\ Partition(attributes, call[p].reportID)
                  = {AttributeCacheKey(call[p].reportID, call[p].attr),
                     AttributeCacheKey(call[r].reportID, call[r].attr)}

C6_Witness ==
    \E p, q, r \in Procs :
        /\ ThreeInSequence(p, q, r)
        /\ call[p].now < call[q].now
        /\ ret[p].admitted /\ ~ret[q].admitted /\ ret[r].admitted

\* The items of a sequence, and those a set of callers appended, with the
\* number of times each occurs.
SeqBag(seq) ==
    [i \in {seq[k] : k \in DOMAIN seq} |-> Cardinality({k \in DOMAIN seq : seq[k] = i})]

AppendedBag(S, Item(_)) ==
    [i \in {Item(p) : p \in S} |-> Cardinality({p \in S : Item(p) = i})]

SavedAlert(p) == call[p].alert

SavedSection(p) ==
    [ReportID |-> call[p].reportID, Attribute |-> call[p].attr, Author |-> "inspector"]

\* The calls that appended to a report's log before call f was made.
SavedBefore(f, op) ==
    {p \in call[f].after : /\ call[p].op = op /\ call[p].reportID = call[f].reportID
                           /\ ret[p].err = ""}

Fetches(op) == {f \in Procs : pc[f] = "done" /\ call[f].op = op}

HasMalformedAlert(reportID) ==
    \E k \in Partition(alertcaches, reportID) : ~UnmarshalAlert(alertcaches[k].AlertData).ok

HasMalformedSection(reportID) ==
    \E k \in Partition(sections, reportID) : ~UnmarshalSection(sections[k].Data).ok

\* What a fetch of a log returned against what was appended before it.
FetchedAppended(f, g, saveOp, Item(_), malformed) ==
    /\ ret[f].err = "" =>
          /\ Len(ret[f].items) = Cardinality(SavedBefore(f, saveOp))
          /\ SeqBag(ret[f].items) = AppendedBag(SavedBefore(f, saveOp), Item)
    /\ (~malformed /\ resp[f] = <<"">>) => ret[f].err = ""
    /\ (/\ call[g].reportID = call[f].reportID
        /\ SavedBefore(g, saveOp) = SavedBefore(f, saveOp)
        /\ ret[f].err = "" /\ ret[g].err = "") =>
          SeqBag(ret[g].items) = SeqBag(ret[f].items)

C7_Fetched ==
    /\ \A f, g \in Fetches("FetchAlertCache") :
          FetchedAppended(f, g, "SaveAlertCache", SavedAlert,
                          HasMalformedAlert(call[f].reportID))
    /\ \A f, g \in Fetches("FetchReportSection") :
          FetchedAppended(f, g, "SaveReportSection", SavedSection,
                          HasMalformedSection(call[f].reportID))

\* A step in which a fetch is made leaves the table as it was.
C7_FetchFrame ==
    (\E f \in Procs : pc[f] = "idle" /\ pc'[f] = "done"
                      /\ call'[f].op \in {"FetchAlertCache", "FetchReportSection"})
        => UNCHANGED <<alertmap, attributes, alertcaches, sections>>

\* C7: a fetch of a report's log that returns no error returns the items of
\* exactly the appends made to that report before it, each as often as it was
\* appended, in any order; it returns no error when the request succeeds and
\* every record decodes, none appended included; two fetches with no append
\* between them return the same items; and a fetch does not change the table.
C7_LogAccumulates == []C7_Fetched /\ [][C7_FetchFrame]_vars

\* Two alerts appended, then fetched in the other order.
C7_Witness ==
    \E f \in Fetches("FetchAlertCache") :
        \E p, q \in SavedBefore(f, "SaveAlertCache") :
            /\ p < q /\ SavedAlert(p) # SavedAlert(q)
            /\ ret[f].err = ""
            /\ ret[f].items = <<SavedAlert(q), SavedAlert(p)>>

\* The last answer the table gave to a call.
LastResp(p) == resp[p][Len(resp[p])]

\* C8 as stated: a call whose conditional write was rejected returns MORE
\* (TakeReport, unless the request of its read fails) or false (PutAttributeCache)
\* and no error, whatever happens to the entry in between.
C8_ConflictNeverError ==
    \A p \in Procs :
        (pc[p] = "done" /\ resp[p] # <<>> /\ resp[p][1] = ConditionalCheckFailed) =>
            IF call[p].op = "TakeReport"
            THEN LastResp(p) # RequestError =>
                    (ret[p].err = "" /\ ret[p].report.Status = "more")
            ELSE ret[p] = NoRet

\* A call that the table failed: a request that did not go through, or a read
\* that found nothing.
Failed(p) == pc[p] = "done" /\ resp[p] # <<>> /\ LastResp(p) \in {RequestError, ErrNotFound}

C9_Returns ==
    \A p \in Procs :
        Failed(p) => ret[p] = [NoRet EXCEPT !.err = LastResp(p)]

C9_Frame ==
    (\E p \in Procs : resp'[p] # resp[p] /\ resp'[p][Len(resp'[p])] = RequestError)
        => UNCHANGED <<alertmap, attributes, alertcaches, sections>>

\* C9: a PutAttributeCache or TakeReport call whose write the table fails for
\* another reason than the condition, and a TakeReport call whose read fails,
\* returns that error, with no report and no admission, and the step of the
\* failed request leaves every record of the table as it was.
C9_FailureSurfaced == []C9_Returns /\ [][C9_Frame]_vars

\* A failed admission of an attribute whose record another call wrote before.
C9_Witness ==
    \E p, q \in Procs :
        /\ call[p].op = "PutAttributeCache" /\ call[q].op = "PutAttributeCache"
        /\ q \in call[p].after /\ ret[q].admitted
        /\ AttributeCacheKey(call[p].reportID, call[p].attr)
              = AttributeCacheKey(call[q].reportID, call[q].attr)
        /\ call[p].attr # call[q].attr
        /\ Failed(p) /\ ret[p].err = RequestError /\ ~ret[p].admitted
        /\ attributes[AttributeCacheKey(call[q].reportID, call[q].attr)]
              = NewAttributeCache(call[q].attr, call[q].now)

\* C10: a fetch whose request succeeded on a partition that holds a record
\* that does not decode returns an error and no item, however many records
\* that decode it holds and wherever the record comes in the answer.
C10_AllOrNothing ==
    /\ \A f \in Fetches("FetchAlertCache") :
          (resp[f] = <<"">> /\ HasMalformedAlert(call[f].reportID)) =>
              (ret[f].err = "unmarshal" /\ ret[f].items = <<>>)
    /\ \A f \in Fetches("FetchReportSection") :
          (resp[f] = <<"">> /\ HasMalformedSection(call[f].reportID)) =>
              (ret[f].err = "unmarshal" /\ ret[f].items = <<>>)

C10_Witness ==
    \E f \in Fetches("FetchAlertCache") :
        /\ resp[f] = <<"">> /\ HasMalformedAlert(call[f].reportID)
        /\ Cardinality(SavedBefore(f, "SaveAlertCache")) = 2
        /\ ret[f].err = "unmarshal"

\* Call r runs TakeReport again with the alert identity and the event timestamp
\* of call p, after p returned; both returned a report.
Retry(p, r) ==
    /\ p # r /\ Finished({p, r})
    /\ call[p].op = "TakeReport" /\ call[r].op = "TakeReport"
    /\ call[r].alert = call[p].alert
    /\ p \in call[r].after
    /\ Reported({p, r}) = {p, r}

\* C11 as stated: a TakeReport call that repeats an earlier, completed call
\* (same alert identity, same event timestamp), whatever other calls were made
\* for that identity in between, returns the report identity of the earlier
\* call, or else returns NEW; it never returns MORE with another identity.
C11_RetrySafe ==
    \A p, r \in Procs :
        Retry(p, r) =>
            \/ ret[r].report.ID = ret[p].report.ID
            \/ ret[r].report.Status = "new"

\* The first call for an attribute of a report and the next one, made after it
\* returned within the time to live, with the same key, type and value and
\* another observation time; neither failed by the table.
ObservedTwice(p, q) ==
    LET S == {s \in Admitters(call[p].reportID) : SameFields(call[s].attr, call[p].attr)}
    IN  /\ p # q /\ call[p].op = "PutAttributeCache" /\ q \in S
        /\ Finished({p, q}) /\ Reported({p, q}) = {p, q}
        /\ call[p].after \cap S = {}
        /\ call[q].after \cap S = {p}
        /\ call[p].attr.Timestamp # call[q].attr.Timestamp
        /\ call[q].now <= call[p].now + AttributeTimeToLive

Restrict(tbl, keys) == [k \in DOMAIN tbl \cap keys |-> tbl[k]]

Others(tbl, key) == Restrict(tbl, DOMAIN tbl \ {key})

\* The step of a request of TakeReport call p: the answer and the record left
\* are those of the same request on a table that holds the entry of the call's
\* alert identity and nothing else, and no other record changes.
TakeReportAlone(p) ==
    LET id == AlertID(call[p].alert)
        own == Restrict(alertmap, {id})
        last == resp'[p][Len(resp'[p])]
    IN  /\ attributes' = attributes
        /\ Others(alertmap', id) = Others(alertmap, id)
        /\ IF pc[p] = "take_put"
           THEN \E put \in PutIf(own, id, NewAlertEntry(p, call[p].alert, call[p].now),
                                 call[p].alert.Timestamp) :
                   put.err = last /\ Restrict(alertmap', {id}) = put.tbl
           ELSE \E one \in GetOne(own, id, NilAlertEntry) :
                   /\ one.err = last
                   /\ Restrict(alertmap', {id}) = own
                   /\ one.err = "" => ret'[p].report = MoreReport(one.item)

\* The same for the request of PutAttributeCache call p.
PutAttributeCacheAlone(p) ==
    LET key == AttributeCacheKey(call[p].reportID, call[p].attr)
        own == Restrict(attributes, {key})
        last == resp'[p][Len(resp'[p])]
    IN  /\ alertmap' = alertmap
        /\ Others(attributes', key) = Others(attributes, key)
        /\ \E put \in PutIf(own, key, NewAttributeCache(call[p].attr, call[p].now),
                             call[p].now) :
               /\ put.err = last
               /\ Restrict(attributes', {key}) = put.tbl
               /\ ret'[p].admitted = (put.err = "")

C13_Frame ==
    /\ \A p \in Procs :
          resp'[p] # resp[p] =>
              IF call[p].op = "TakeReport" THEN TakeReportAlone(p)
              ELSE PutAttributeCacheAlone(p)
    /\ resp' = resp => (alertmap' = alertmap /\ attributes' = attributes)

\* Calls that are alone on their key get the result of a call on an empty
\* table, whatever the calls on other keys do.
C13_Outcome ==
    /\ \A p \in Procs :
          (/\ pc[p] = "done" /\ call[p].op = "TakeReport" /\ ret[p].err = ""
           /\ Takers(AlertID(call[p].alert)) = {p}) =>
              ret[p].report = [ID |-> NewReportID(p), Status |-> "new", CreatedAt |-> call[p].now]
    /\ \A p \in Procs :
          (/\ pc[p] = "done" /\ call[p].op = "PutAttributeCache" /\ ret[p].err = ""
           /\ \A q \in Admitters(call[p].reportID) \ {p} :
                 ~SameFields(call[q].attr, call[p].attr)) =>
              ret[p].admitted

\* C13: a request of a TakeReport call for an alert identity answers and
\* writes as it would on a table holding that identity's entry alone, and
\* changes no other record; a PutAttributeCache call likewise for the record
\* of its report and attribute hash; so a call that is alone on its key
\* returns what it returns on an empty table whatever calls are made on other
\* keys, and an attribute is admitted in each report apart.
C13_KeyIndependence == []C13_Outcome /\ [][C13_Frame]_vars

\* The same attribute admitted in two reports by calls that overlap, next to
\* a TakeReport call that returned NEW.
C13_Witness ==
    \E p, q \in Procs :
        /\ call[p].op = "PutAttributeCache" /\ call[q].op = "PutAttributeCache"
        /\ call[p].reportID # call[q].reportID
        /\ Hash(call[p].attr) = Hash(call[q].attr)
        /\ Concurrent(p, q)
        /\ ret[p].admitted /\ ret[q].admitted
        /\ DOMAIN attributes = {AttributeCacheKey(call[p].reportID, call[p].attr),
                                AttributeCacheKey(call[q].reportID, call[q].attr)}
        /\ \E r \in Procs : call[r].op = "TakeReport" /\ ret[r].report.Status = "new"

\* The data a write of the mock goes to and the key it writes.
WrittenData(p) == IF call'[p].op = "PutAlertEntry" THEN alertmap ELSE attributes

WrittenDataAfter(p) == IF call'[p].op = "PutAlertEntry" THEN alertmap' ELSE attributes'

WrittenKey(p) ==
    IF call'[p].op = "PutAlertEntry" THEN AlertID(call'[p].alert)
    ELSE AttributeCacheKey(call'[p].reportID, call'[p].attr)

C14_Step ==
    \A p \in Procs :
        (pc[p] = "idle" /\ pc'[p] = "done"
         /\ call'[p].op \in {"PutAlertEntry", "PutAttributeCache"}) =>
            LET data == WrittenData(p)
                after == WrittenDataAfter(p)
                key == WrittenKey(p)
                accepted == ret'[p].err = ""
            IN  /\ accepted <=> ConditionHolds(data, key, Unix(call'[p].now))
                /\ ~accepted => (IsConditionalCheckErr(ret'[p].err) /\ after = data)
                /\ accepted => /\ key \in DOMAIN after
                               /\ after[key].ExpiresAt \in Times
                               /\ Others(after, key) = Others(data, key)

Colons(arn) == {i \in DOMAIN arn : arn[i] = ":"}

WellFormed(arn) == Cardinality(Colons(arn)) = 6

\* The characters between the third colon and the fourth.
FourthPart(arn) ==
    LET nth(n) == CHOOSE i \in Colons(arn) : Cardinality({j \in Colons(arn) : j < i}) = n - 1
    IN  SubSeq(arn, nth(3) + 1, nth(4) - 1)

Execs == {p \in Procs : pc[p] = "done" /\ call[p].op = "Exec"}

\* C15 as stated: Exec with an ARN that has not exactly seven parts returns
\* the error 'Invalid state machine ARN' and makes no session and no
\* StartExecution.
C15_MalformedIsInvalidARN ==
    \A p \in Execs :
        ~WellFormed(call[p].arn) => (ret[p].err = InvalidARN /\ resp[p] = <<>>)

\* C15: Exec with an ARN that has not exactly seven parts returns an error
\* and makes no session and no StartExecution: 'Invalid state machine ARN'
\* when the data marshals, 'Fail to marshal report data' when it does not;
\* with data that marshals and an ARN of seven parts the session is made for
\* the fourth part and StartExecution is issued for the ARN.
C15_MalformedRejected ==
    \A p \in Execs :
        /\ ~WellFormed(call[p].arn) =>
              /\ resp[p] = <<>>
              /\ ret[p].err = IF call[p].data = "chan" THEN MarshalFailed ELSE InvalidARN
        /\ (WellFormed(call[p].arn) /\ call[p].data # "chan") =>
              /\ Len(resp[p]) = 2
              /\ resp[p][1] = [request |-> "NewSession", region |-> FourthPart(call[p].arn)]
              /\ resp[p][2].request = "StartExecution" /\ resp[p][2].arn = call[p].arn
              /\ ret[p].err \in {"", ExecuteFailed}

\* An ARN of eight parts, refused with data that marshals.
C15_Witness ==
    \E p \in Execs :
        /\ Cardinality(Colons(call[p].arn)) = 7
        /\ call[p].data = "report"
        /\ ret[p].err = InvalidARN /\ resp[p] = <<>>

\* The TakeReport calls whose write was rejected and that returned a report.
Losers ==
    {p \in Procs : /\ pc[p] = "done" /\ call[p].op = "TakeReport"
                   /\ resp[p][1] = ConditionalCheckFailed /\ ret[p].err = ""}

\* C16 as stated: however the calls for an alert identity interleave, one that
\* starts the next window among them, a TakeReport call whose write was
\* rejected returns the report identity and the createdAt of the entry that
\* rejected it.
C16_LoserConverges ==
    \A p \in Losers :
        /\ ret[p].report.ID = call[p].rejected.ReportID
        /\ ret[p].report.CreatedAt = call[p].rejected.CreatedAt

\* The call that drew a report identity.
Drew(reportID) == {w \in Procs : call[w].op = "TakeReport" /\ NewReportID(w) = reportID}

\* A record changes, or comes to be, only by the accepted write of a call for
\* its key whose timestamp is past the expires_at of the record that was there.
C17_Step ==
    /\ \A k \in DOMAIN alertmap \cup DOMAIN alertmap' :
          \/ k \in DOMAIN alertmap /\ k \in DOMAIN alertmap' /\ alertmap'[k] = alertmap[k]
          \/ \E p \in Procs :
                /\ pc[p] = "take_put" /\ AlertID(call[p].alert) = k
                /\ k \in DOMAIN alertmap => alertmap[k].ExpiresAt < EventTime(p)
                /\ pc'[p] = "done" /\ ret'[p].report.Status = "new"
                /\ alertmap'[k] = NewAlertEntry(p, call[p].alert, call[p].now)
    /\ \A k \in DOMAIN attributes \cup DOMAIN attributes' :
          \/ k \in DOMAIN attributes /\ k \in DOMAIN attributes'
                /\ attributes'[k] = attributes[k]
          \/ \E p \in Procs :
                /\ pc[p] = "attr_put" /\ AttributeCacheKey(call[p].reportID, call[p].attr) = k
                /\ k \in DOMAIN attributes => attributes[k].ExpiresAt < call[p].now
                /\ ret'[p].admitted
                /\ attributes'[k] = NewAttributeCache(call[p].attr, call[p].now)
    /\ \A p \in Procs :
          (pc[p] # "done" /\ pc'[p] = "done" /\ call[p].op = "TakeReport"
           /\ ret'[p].report.Status = "more") =>
              /\ alertmap' = alertmap
              /\ alertmap[AlertID(call[p].alert)].ExpiresAt
                    = EventTime(CHOOSE w \in Drew(ret'[p].report.ID) : TRUE) + ReportWindow

\* The identity drawn by a call whose write was rejected is in no entry, and
\* each entry is the one its writer made.
C17_Stored ==
    \A k \in DOMAIN alertmap :
        /\ \A p \in Procs :
              (resp[p] # <<>> /\ resp[p][1] = ConditionalCheckFailed) =>
                  alertmap[k].ReportID # NewReportID(p)
        /\ \E w \in Drew(alertmap[k].ReportID) :
              alertmap[k] = NewAlertEntry(w, call[w].alert, call[w].now)

\* C17: an alert entry or attribute record, once written, is never changed by
\* a call for which it is live (its expires_at not before the call's
\* timestamp): it is only replaced by the accepted write of a call whose
\* timestamp is past its expires_at; a TakeReport call that returns MORE
\* leaves the entry as it was, expiring at the first event's timestamp + W,
\* and the identity drawn by a call whose write was rejected is never stored.
C17_NoMutation == []C17_Stored /\ [][C17_Step]_vars

\* A later event of the window has been answered MORE, after the clock moved
\* on, and the entry is still the one the first call wrote.
C17_Witness ==
    \E p, q \in Procs :
        /\ InSequence(p, q) /\ EventTime(q) > EventTime(p) /\ ret[q].report.Status = "more"
        /\ call[q].now > call[p].now
        /\ alertmap[AlertID(call[p].alert)] = NewAlertEntry(p, call[p].alert, call[p].now)

\* The expires_at of the entry of an alert identity does not go down in a
\* step, and goes up by more than a window when the entry is replaced; the call
\* that replaces it has an event timestamp past the expires_at it found.
C18_Step ==
    \A k \in DOMAIN alertmap :
        /\ k \in DOMAIN alertmap'
        /\ alertmap'[k].ExpiresAt >= alertmap[k].ExpiresAt
        /\ alertmap'[k] # alertmap[k] =>
              alertmap'[k].ExpiresAt > alertmap[k].ExpiresAt + ReportWindow
        /\ \A p \in Procs :
              (/\ pc[p] = "take_put" /\ pc'[p] = "done" /\ AlertID(call[p].alert) = k
               /\ ret'[p].report.Status = "new") =>
                  EventTime(p) > alertmap[k].ExpiresAt

\* C18: over the TakeReport calls made for an alert identity, whatever their
\* event timestamps and however they interleave, the expires_at of the stored
\* entry never decreases: a write is accepted over an entry only when its
\* timestamp is past the stored expires_at, and stores timestamp + W; so a call
\* for an event earlier than the start of the stored window does not return
\* NEW.
C18_ExpiryNeverDecreases == [][C18_Step]_vars

\* An event from before the start of the stored window, answered MORE.
C18_Witness ==
    \E p, q \in Procs :
        /\ InSequence(p, q)
        /\ EventTime(q) < EventTime(p)
        /\ EventTime(q) + ReportWindow < EventTime(p)
        /\ ret[p].report.Status = "new" /\ ret[q].report.Status = "more"
        /\ alertmap[AlertID(call[p].alert)].ExpiresAt = EventTime(p) + ReportWindow

\* The TakeReport calls that returned a report of the given status.
TookWith(status) ==
    {p \in Procs : /\ pc[p] = "done" /\ call[p].op = "TakeReport"
                   /\ ret[p].report.Status = status}

\* C19: with tokens that never repeat, over all alert identities and all
\* interleavings, no two TakeReport calls return NEW with the same report
\* identity, and a report identity returned with MORE is one that another call
\* for the same alert identity, whose write was accepted before, returned
\* with NEW.
C19_IdentitiesAllocatedOnce ==
    /\ \A p, q \in TookWith("new") : p # q => ret[p].report.ID # ret[q].report.ID
    /\ \A p \in TookWith("more") :
          \E q \in TookWith("new") \ {p} :
              /\ AlertID(call[q].alert) = AlertID(call[p].alert)
              /\ ret[q].report.ID = ret[p].report.ID
              /\ resp[q] = <<"">>

\* Two windows of one alert identity and a call that joined the second.
C19_Witness ==
    \E p, q, r \in Procs :
        /\ {p, q} \subseteq TookWith("new") /\ r \in TookWith("more")
        /\ p # q
        /\ AlertID(call[p].alert) = AlertID(call[q].alert)
        /\ AlertID(call[r].alert) = AlertID(call[q].alert)
        /\ ret[r].report.ID = ret[q].report.ID
        /\ ret[p].report.ID # ret[q].report.ID

\* The calls that were admitted for a report and attribute hash.
AdmittedFor(key) ==
    {w \in Procs : /\ pc[w] = "done" /\ call[w].op = "PutAttributeCache"
                   /\ AttributeCacheKey(call[w].reportID, call[w].attr) = key
                   /\ ret[w].admitted}

\* The write times of two admitted calls for one record are more than the
\* time to live apart, and the record is that of one of them.
C20_Apart ==
    \A key \in DOMAIN attributes :
        /\ \A p, q \in AdmittedFor(key) :
              p # q => \/ call[q].now > call[p].now + AttributeTimeToLive
                       \/ call[p].now > call[q].now + AttributeTimeToLive
        /\ \E w \in AdmittedFor(key) :
              attributes[key] = NewAttributeCache(call[w].attr, call[w].now)

\* A write that finds the record written at time n and that the table does not
\* fail is rejected, leaving the record, when its own time is at most n + TTL;
\* past that it is admitted and its record replaces the one found.
C20_Step ==
    \A p \in Procs :
        LET key == AttributeCacheKey(call[p].reportID, call[p].attr)
        IN  (/\ pc[p] = "attr_put" /\ pc'[p] = "done" /\ key \in DOMAIN attributes
             /\ ret'[p].err = "") =>
                \A w \in AdmittedFor(key) :
                    attributes[key] = NewAttributeCache(call[w].attr, call[w].now) =>
                        IF call[p].now <= call[w].now + AttributeTimeToLive
                        THEN ~ret'[p].admitted /\ attributes' = attributes
                        ELSE /\ ret'[p].admitted
                             /\ attributes'[key] = NewAttributeCache(call[p].attr, call[p].now)

\* C20: two PutAttributeCache calls for the same report and attribute hash
\* that both return true read the clock more than the time to live (3h)
\* apart: the record written at time n rejects every write at n' <= n + 3h,
\* and a write at n' > n + 3h is admitted again and replaces the record.
C20_AdmissionsApart == []C20_Apart /\ [][C20_Step]_vars

\* Admitted, and admitted again after the time to live.
C20_Witness ==
    \E p, q \in Procs :
        /\ p # q /\ {p, q} \subseteq AdmittedFor(AttributeCacheKey(call[p].reportID, call[p].attr))
        /\ call[q].now > call[p].now + AttributeTimeToLive
        /\ attributes[AttributeCacheKey(call[p].reportID, call[p].attr)]
              = NewAttributeCache(call[q].attr, call[q].now)

====
